---- MODULE Spec2Model ----
(***************************************************************************)
(* Task service (lab9 task tracker, port 8002) and billing service (port   *)
(* 8003): task creation with the overlap check, partial updates with the   *)
(* "done" transition that issues an invoice, and the removal operations.   *)
(* Object ids are integers, NilObjectID is 0.  Timestamps are integers in  *)
(* units of 1/TicksPerMs millisecond; the store keeps whole milliseconds.  *)
(***************************************************************************)
EXTENDS Integers, Sequences, FiniteSets, TLC

\* ---------------------------------------------------------------- bounds
MaxTasks == 2
LifeTasks == 1
MaxUpdates == 3
MaxTime == 3
MaxHours == 2
NumUsers == 2
TicksPerMs == 1

\* ------------------------------------------------------ program constants
NilObjectID == 0
hourlyRate == 100

StatusOK == 200
StatusNoContent == 204
StatusBadRequest == 400
StatusUnauthorized == 401
StatusNotFound == 404
StatusMethodNotAllowed == 405
StatusInternalServerError == 500

Warning == <<"Warning: This task overlaps with existing task(s).">>

VARIABLES tasks, billings, reqs, reply, nextTask, nextBilling, started, doneByUpdate

vars == <<tasks, billings, reqs, reply, nextTask, nextBilling, started, doneByUpdate>>

\* ------------------------------------------------------------ JSON values
\* A decoded JSON value (interface{}): kind k with payload n or s.
\*   "str"  a string that is neither an RFC3339 timestamp nor 24 hex digits
\*   "date" a string in RFC3339 format denoting the instant n
\*   "hex"  a string of 24 hex digits denoting the object id n
\*   "num"  a JSON number n
\*   "other" any value that is not a string or a number (bool, null, object)
Str(s) == [k |-> "str", n |-> 0, s |-> s]
DateStr(t) == [k |-> "date", n |-> t, s |-> ""]
HexStr(i) == [k |-> "hex", n |-> i, s |-> ""]
Num(n) == [k |-> "num", n |-> n, s |-> ""]
Other == [k |-> "other", n |-> 0, s |-> ""]
JNil == [k |-> "nil", n |-> 0, s |-> ""]

IsString(v) == v.k \in {"str", "date", "hex"}

\* updates[key]: the zero value (nil) for a missing key
Lookup(updates, key) == IF key \in DOMAIN updates THEN updates[key] ELSE JNil

\* ------------------------------------------------------------- the stores
\* time.Time written as a BSON DateTime keeps whole milliseconds
BsonDateTime(t) == (t \div TicksPerMs) * TicksPerMs

\* primitive.NewObjectID(): an id no document has had before
NewTaskID == nextTask
NewBillingID == nextBilling

UserIds == 1 .. NumUsers
Times == 0 .. MaxTime

\* The document InsertOne writes for a Task struct
TaskDoc(task) ==
    [title |-> task.title,
     description |-> task.description,
     assigned_to |-> task.assigned_to,
     status |-> task.status,
     hours |-> task.hours,
     start_date |-> BsonDateTime(task.start_date),
     end_date |-> BsonDateTime(task.end_date),
     invoice_id |-> task.invoice_id,
     parent_task |-> task.parent_task]

\* ------------------------------------------------------------ createTask
\* The filter of the overlap query, applied to one stored document
OverlapFilter(doc, task) ==
    /\ doc.assigned_to = task.assigned_to
    /\ doc.end_date > BsonDateTime(task.start_date)
    /\ doc.start_date < BsonDateTime(task.end_date)

overlappingTasks(task) == {i \in DOMAIN tasks : OverlapFilter(tasks[i], task)}

\* (the warning replaces the description)
WithWarningOnly(task) ==
    IF overlappingTasks(task) # {}
    THEN [task EXCEPT !.description = Warning]
    ELSE task

\* task.Description += " Warning: ..." when the query finds a task
WithWarning(task) ==
    IF overlappingTasks(task) # {}
    THEN [task EXCEPT !.description = @ \o Warning]
    ELSE task

Insert(store, id, doc) == [i \in DOMAIN store \cup {id} |-> IF i = id THEN doc ELSE store[i]]

Delete(store, ids) == [i \in DOMAIN store \ ids |-> store[i]]

\* What a handler wrote to its caller last: the operation and the status code
\* (0: the handler has not answered yet)
Reply(op, code) == [op |-> op, code |-> code]

\* json Decode of the request body fails
createTaskBadBody ==
    /\ reply' = Reply("createTask", StatusBadRequest)
    /\ UNCHANGED <<tasks, billings, reqs, nextTask, nextBilling, started, doneByUpdate>>

\* task: the Task decoded from the request body (any id in it is overwritten)
createTask(task) ==
    /\ tasks' = Insert(tasks, NewTaskID, TaskDoc(WithWarning(task)))
    /\ nextTask' = nextTask + 1
    /\ reply' = Reply("createTask", StatusOK)
    /\ UNCHANGED <<billings, reqs, nextBilling, started, doneByUpdate>>

\* ------------------------------------------------------------ updateTask
RecognizedKeys == {"title", "description", "assigned_to", "status", "hours",
                   "start_date", "end_date", "parent_task"}
VerbatimKeys == {"title", "description", "assigned_to", "status", "hours"}
DateKeys == {"start_date", "end_date"}

Time(t) == [k |-> "time", n |-> t, s |-> ""]
Oid(i) == [k |-> "oid", n |-> i, s |-> ""]

\* time.Parse(time.RFC3339, s) and primitive.ObjectIDFromHex(s) succeed
ParsesAsDate(v) == v.k = "date"
ParsesAsHex(v) == v.k = "hex"

\* (every key of the patch reaches the $set document)
SetKeysAll(updates) == DOMAIN updates

\* The keys of the patch that reach the $set document
SetKeys(updates) ==
    {key \in DOMAIN updates :
        \/ key \in VerbatimKeys
        \/ key \in DateKeys /\ IsString(updates[key])
        \/ key = "parent_task" /\ IsString(updates[key])}

\* The loop returns 400 on a date or parent id string that does not parse
PatchInvalid(updates) ==
    \/ \E key \in DateKeys \cap DOMAIN updates :
          IsString(updates[key]) /\ ~ParsesAsDate(updates[key])
    \/ /\ "parent_task" \in DOMAIN updates
       /\ IsString(updates["parent_task"])
       /\ ~ParsesAsHex(updates["parent_task"])

\* updateDoc["$set"] after the loop
BuildSet(updates) ==
    [key \in SetKeys(updates) |->
        IF key \in VerbatimKeys THEN updates[key]
        ELSE IF key \in DateKeys THEN Time(updates[key].n)
        ELSE Oid(updates[key].n)]

\* (a write that resets invoice_id unless the update document carries one)
ApplySetReplacing(doc, set) ==
    [title |-> IF "title" \in DOMAIN set THEN set["title"].s ELSE doc.title,
     description |-> IF "description" \in DOMAIN set THEN <<set["description"].s>>
                     ELSE doc.description,
     assigned_to |-> IF "assigned_to" \in DOMAIN set THEN set["assigned_to"].n
                     ELSE doc.assigned_to,
     status |-> IF "status" \in DOMAIN set THEN set["status"].s ELSE doc.status,
     hours |-> IF "hours" \in DOMAIN set THEN set["hours"].n ELSE doc.hours,
     start_date |-> IF "start_date" \in DOMAIN set THEN BsonDateTime(set["start_date"].n)
                    ELSE doc.start_date,
     end_date |-> IF "end_date" \in DOMAIN set THEN BsonDateTime(set["end_date"].n)
                  ELSE doc.end_date,
     invoice_id |-> IF "invoice_id" \in DOMAIN set THEN set["invoice_id"].n
                    ELSE NilObjectID,
     parent_task |-> IF "parent_task" \in DOMAIN set THEN set["parent_task"].n
                     ELSE doc.parent_task]

\* UpdateOne with {"$set": set} on one stored document.  Patch values of the
\* verbatim keys are of the field's own JSON type in this model.
ApplySet(doc, set) ==
    [title |-> IF "title" \in DOMAIN set THEN set["title"].s ELSE doc.title,
     description |-> IF "description" \in DOMAIN set THEN <<set["description"].s>>
                     ELSE doc.description,
     assigned_to |-> IF "assigned_to" \in DOMAIN set THEN set["assigned_to"].n
                     ELSE doc.assigned_to,
     status |-> IF "status" \in DOMAIN set THEN set["status"].s ELSE doc.status,
     hours |-> IF "hours" \in DOMAIN set THEN set["hours"].n ELSE doc.hours,
     start_date |-> IF "start_date" \in DOMAIN set THEN BsonDateTime(set["start_date"].n)
                    ELSE doc.start_date,
     end_date |-> IF "end_date" \in DOMAIN set THEN BsonDateTime(set["end_date"].n)
                  ELSE doc.end_date,
     invoice_id |-> IF "invoice_id" \in DOMAIN set THEN set["invoice_id"].n
                    ELSE doc.invoice_id,
     parent_task |-> IF "parent_task" \in DOMAIN set THEN set["parent_task"].n
                     ELSE doc.parent_task]

\* (a write whose filter matches every document)
UpdateMany(store, id, set) == [i \in DOMAIN store |-> ApplySet(store[i], set)]

\* UpdateOne matches the document by _id; no match is not an error
UpdateOne(store, id, set) ==
    IF id \in DOMAIN store THEN [store EXCEPT ![id] = ApplySet(@, set)] ELSE store

\* FindOne(...).Decode(&currentTask): the stored document with its _id
Decode(id, doc) == [id |-> id] @@ doc

\* (a guard that does not look at the current status)
TransitionsToDoneAnyStatus(currentTask, updates) ==
    Lookup(updates, "status") = Str("done")

\* currentTask.Status != "done" && updates["status"] == "done"
TransitionsToDone(currentTask, updates) ==
    currentTask.status # "done" /\ Lookup(updates, "status") = Str("done")

\* Method check, id parsing and body decoding, before anything is read
updateTaskReject(why) ==
    /\ reply' = Reply("updateTask",
                      IF why = "method" THEN StatusMethodNotAllowed ELSE StatusBadRequest)
    /\ UNCHANGED <<tasks, billings, reqs, nextTask, nextBilling, started, doneByUpdate>>

\* A date or parent id of the patch does not parse
updateTaskInvalidPatch(id, updates) ==
    /\ PatchInvalid(updates)
    /\ reply' = Reply("updateTask", StatusBadRequest)
    /\ UNCHANGED <<tasks, billings, reqs, nextTask, nextBilling, started, doneByUpdate>>

updateTaskNotFound(id, updates) ==
    /\ ~PatchInvalid(updates)
    /\ id \notin DOMAIN tasks
    /\ reply' = Reply("updateTask", StatusNotFound)
    /\ UNCHANGED <<tasks, billings, reqs, nextTask, nextBilling, started, doneByUpdate>>

\* Two goroutines serve update requests at a time
Handlers == {1, 2}

\* A handler goroutine is free to serve a request: it has served none, or
\* it has answered its last one
Free(r) == reqs[r].pc \in {"idle", "failed", "written"}

\* The request has built its $set document and read the current task
updateTaskLoad(r, id, updates) ==
    /\ started < MaxUpdates
    /\ Free(r)
    /\ \A q \in Handlers : q < r => ~Free(q)
    /\ ~PatchInvalid(updates)
    /\ id \in DOMAIN tasks
    /\ reqs' = [reqs EXCEPT ![r] = [objectID |-> id, updates |-> updates,
                                    set |-> BuildSet(updates),
                                    currentTask |-> Decode(id, tasks[id]),
                                    pc |-> "loaded",
                                    invoiceID |-> NilObjectID, code |-> 0]]
    /\ started' = started + 1
    /\ reply' = Reply("updateTask.FindOne", 0)
    /\ UNCHANGED <<tasks, billings, nextTask, nextBilling, doneByUpdate>>

\* ------------------------------------------- createInvoiceInBillingService
\* (an amount that is not multiplied by the hours)
InvoiceRequestFlatAmount(task) ==
    [user_id |-> task.assigned_to,
     task_id |-> task.id,
     hours |-> task.hours,
     amount |-> hourlyRate]

\* The Billing the task service posts (its ID is assigned remotely)
InvoiceRequest(task) ==
    [user_id |-> task.assigned_to,
     task_id |-> task.id,
     hours |-> task.hours,
     amount |-> task.hours * hourlyRate]

\* createBilling of the billing service: billing.ID = NewObjectID, InsertOne
createBilling(billing) ==
    /\ billings' = Insert(billings, NewBillingID, billing)
    /\ nextBilling' = nextBilling + 1

\* POST /billings/createForTaskService on the gateway hands the body to
\* the billing service's create handler
createForTaskService(billing) == createBilling(billing)

\* How the call ends for the task service: "ok" (200 and a decodable body),
\* "transport" (client.Do fails), "status" (a code other than 200), "decode"
\* (200 with a body that does not decode)
InvoiceOutcomes == {"ok", "transport", "status", "decode"}

\* The billing service has inserted the record when it answered 200
RemoteInserted(outcome) == outcome \in {"ok", "decode"}

\* (the returned id never reaches the update document)
WithInvoiceDropped(set, invoiceID) == set

\* updateDoc["$set"]["invoice_id"] = invoiceID
WithInvoice(set, invoiceID) ==
    [key \in DOMAIN set \cup {"invoice_id"} |->
        IF key = "invoice_id" THEN Oid(invoiceID) ELSE set[key]]

\* (a failed invoice call that is logged but not returned from)
updateTaskIssueNoReturn(r, outcome) ==
    /\ reqs[r].pc = "loaded"
    /\ TransitionsToDone(reqs[r].currentTask, reqs[r].updates)
    /\ IF RemoteInserted(outcome)
       THEN createForTaskService(InvoiceRequest(reqs[r].currentTask))
       ELSE UNCHANGED <<billings, nextBilling>>
    /\ IF outcome = "ok"
       THEN /\ reqs' = [reqs EXCEPT ![r].pc = "issued",
                                    ![r].invoiceID = NewBillingID,
                                    ![r].set = WithInvoice(@, NewBillingID)]
            /\ UNCHANGED tasks
       ELSE /\ reqs' = [reqs EXCEPT ![r].pc = "failed",
                                    ![r].code = StatusInternalServerError]
            /\ tasks' = UpdateOne(tasks, reqs[r].objectID, reqs[r].set)
    /\ reply' = Reply("updateTask.invoice",
                      IF outcome = "ok" THEN 0 ELSE StatusInternalServerError)
    /\ UNCHANGED <<nextTask, started, doneByUpdate>>

\* The done transition: the invoice call of request r and what follows it
updateTaskIssue(r, outcome) ==
    /\ reqs[r].pc = "loaded"
    /\ TransitionsToDone(reqs[r].currentTask, reqs[r].updates)
    /\ IF RemoteInserted(outcome)
       THEN createForTaskService(InvoiceRequest(reqs[r].currentTask))
       ELSE UNCHANGED <<billings, nextBilling>>
    /\ IF outcome = "ok"
       THEN reqs' = [reqs EXCEPT ![r].pc = "issued",
                                 ![r].invoiceID = NewBillingID,
                                 ![r].set = WithInvoice(@, NewBillingID)]
       ELSE reqs' = [reqs EXCEPT ![r].pc = "failed",
                                 ![r].code = StatusInternalServerError]
    /\ reply' = Reply("updateTask.invoice",
                      IF outcome = "ok" THEN 0 ELSE StatusInternalServerError)
    /\ UNCHANGED <<tasks, nextTask, started, doneByUpdate>>

\* The write of request r and its 204
updateTaskPersist(r) ==
    /\ \/ reqs[r].pc = "issued"
       \/ /\ reqs[r].pc = "loaded"
          /\ ~TransitionsToDone(reqs[r].currentTask, reqs[r].updates)
    /\ tasks' = UpdateOne(tasks, reqs[r].objectID, reqs[r].set)
    /\ reqs' = [reqs EXCEPT ![r].pc = "written", ![r].code = StatusNoContent]
    /\ doneByUpdate' =
          IF /\ reqs[r].objectID \in DOMAIN tasks
             /\ Lookup(reqs[r].set, "status") = Str("done")
          THEN doneByUpdate \cup {reqs[r].objectID}
          ELSE doneByUpdate
    /\ reply' = Reply("updateTask", StatusNoContent)
    /\ UNCHANGED <<billings, nextTask, nextBilling, started>>

\* The store refuses the write: a server that does not take an empty $set
\* document answers UpdateOne with an error, and the handler answers 500.
\* (pc "written": the UpdateOne call has returned and the handler answered)
updateTaskPersistRefused(r) ==
    /\ reqs[r].pc = "loaded"
    /\ ~TransitionsToDone(reqs[r].currentTask, reqs[r].updates)
    /\ DOMAIN reqs[r].set = {}
    /\ reqs' = [reqs EXCEPT ![r].pc = "written", ![r].code = StatusInternalServerError]
    /\ reply' = Reply("updateTask", StatusInternalServerError)
    /\ UNCHANGED <<tasks, billings, nextTask, nextBilling, started, doneByUpdate>>

\* ------------------------------------------------------------- removals
\* What resolving the caller's identity at the user service gives: the call
\* fails, answers a code other than 200, answers an undecodable body, or
\* answers a role
IdentOutcomes == {"error", "non200", "undecodable", "user", "admin"}

isAdmin(ident) == ident = "admin"

Methods == {"DELETE", "GET"}

\* The handler of a removal route behind adminMiddleware
adminMiddleware(ident, next) == IF isAdmin(ident) THEN next ELSE "unauthorized"

\* authMiddleware authenticates the caller before the next handler runs
authMiddleware(authenticated, next) == IF authenticated THEN next ELSE "unauthorized"

\* The route table: which handler a removal request reaches
Route(path, authenticated, ident) ==
    IF path = "/tasks/remove/"
    THEN authMiddleware(authenticated, adminMiddleware(ident, "removeTask"))
    ELSE IF path = "/tasks/removeAllTasks" THEN "removeAllTasks"
    ELSE IF path = "/billings/remove/" THEN "removeBilling"
    ELSE "removeAllBillings"

RemovalPaths == {"/tasks/remove/", "/tasks/removeAllTasks",
                 "/billings/remove/", "/billings/removeAllBillings"}

Unauthorized(path, id, ident) ==
    /\ reply' = Reply(path, StatusUnauthorized)
    /\ UNCHANGED <<tasks, billings>>

\* method: the request's method; idOk: the id in the path is 24 hex digits
removeTask(method, idOk, id, ident) ==
    IF method # "DELETE"
    THEN /\ reply' = Reply("/tasks/remove/", StatusMethodNotAllowed)
         /\ UNCHANGED <<tasks, billings>>
    ELSE IF ~idOk
    THEN /\ reply' = Reply("/tasks/remove/", StatusBadRequest)
         /\ UNCHANGED <<tasks, billings>>
    ELSE /\ tasks' = Delete(tasks, {id})
         /\ reply' = Reply("/tasks/remove/", StatusNoContent)
         /\ UNCHANGED billings

removeAllTasks(method, ident) ==
    IF method # "DELETE"
    THEN /\ reply' = Reply("/tasks/removeAllTasks", StatusMethodNotAllowed)
         /\ UNCHANGED <<tasks, billings>>
    ELSE /\ tasks' = Delete(tasks, DOMAIN tasks)
         /\ reply' = Reply("/tasks/removeAllTasks", StatusOK)
         /\ UNCHANGED billings

removeBilling(method, idOk, id, ident) ==
    IF method # "DELETE"
    THEN /\ reply' = Reply("/billings/remove/", StatusMethodNotAllowed)
         /\ UNCHANGED <<tasks, billings>>
    ELSE IF ~idOk
    THEN /\ reply' = Reply("/billings/remove/", StatusBadRequest)
         /\ UNCHANGED <<tasks, billings>>
    ELSE /\ billings' = Delete(billings, {id})
         /\ reply' = Reply("/billings/remove/", StatusNoContent)
         /\ UNCHANGED tasks

removeAllBillings(method, ident) ==
    IF method # "DELETE"
    THEN /\ reply' = Reply("/billings/removeAllBillings", StatusMethodNotAllowed)
         /\ UNCHANGED <<tasks, billings>>
    ELSE /\ billings' = Delete(billings, DOMAIN billings)
         /\ reply' = Reply("/billings/removeAllBillings", StatusNoContent)
         /\ UNCHANGED tasks

\* One removal request, through the route table
Removal(path, method, idOk, id, authenticated, ident) ==
    /\ LET handler == Route(path, authenticated, ident)
       IN CASE handler = "unauthorized" -> Unauthorized(path, id, ident)
            [] handler = "removeTask" -> removeTask(method, idOk, id, ident)
            [] handler = "removeAllTasks" -> removeAllTasks(method, ident)
            [] handler = "removeBilling" -> removeBilling(method, idOk, id, ident)
            [] handler = "removeAllBillings" -> removeAllBillings(method, ident)
    /\ UNCHANGED <<reqs, nextTask, nextBilling, started, doneByUpdate>>

RemoveTaskRequest(method, idOk, id, authenticated, ident) ==
    Removal("/tasks/remove/", method, idOk, id, authenticated, ident)

RemoveAllTasksRequest(method, authenticated, ident) ==
    Removal("/tasks/removeAllTasks", method, TRUE, NilObjectID, authenticated, ident)

RemoveBillingRequest(method, idOk, id, authenticated, ident) ==
    Removal("/billings/remove/", method, idOk, id, authenticated, ident)

RemoveAllBillingsRequest(method, authenticated, ident) ==
    Removal("/billings/removeAllBillings", method, TRUE, NilObjectID, authenticated, ident)

\* POST /billings/create of the billing service, called by a client
CreateBillingRequest(method, bodyOk, billing) ==
    /\ IF method # "POST"
       THEN /\ reply' = Reply("/billings/create", StatusMethodNotAllowed)
            /\ UNCHANGED <<billings, nextBilling>>
       ELSE IF ~bodyOk
       THEN /\ reply' = Reply("/billings/create", StatusBadRequest)
            /\ UNCHANGED <<billings, nextBilling>>
       ELSE /\ createBilling(billing)
            /\ reply' = Reply("/billings/create", StatusOK)
    /\ UNCHANGED <<tasks, reqs, nextTask, started, doneByUpdate>>

\* ------------------------------------------------------------ the system
NoTask ==
    [id |-> NilObjectID, title |-> "", description |-> <<>>, assigned_to |-> NilObjectID,
     status |-> "", hours |-> 0, start_date |-> 0, end_date |-> 0,
     invoice_id |-> NilObjectID, parent_task |-> NilObjectID]

Idle ==
    [objectID |-> NilObjectID, updates |-> <<>>, set |-> <<>>, currentTask |-> NoTask,
     pc |-> "idle", invoiceID |-> NilObjectID, code |-> 0]

Init ==
    /\ tasks = <<>>
    /\ billings = <<>>
    /\ reqs = [r \in Handlers |-> Idle]
    /\ reply = Reply("none", 0)
    /\ nextTask = 1
    /\ nextBilling = 1
    /\ started = 0
    /\ doneByUpdate = {}

\* An invoice id a client puts into the body of a create request
ClientInvoiceID == MaxUpdates + 1

NewTask(user, status, hours, start, end, invoice) ==
    [title |-> "t", description |-> <<"d">>, assigned_to |-> user, status |-> status,
     hours |-> hours, start_date |-> start, end_date |-> end,
     invoice_id |-> invoice, parent_task |-> NilObjectID]

\* ---- the task lifecycle: create, concurrent updates, removal by an admin
LifeIds == 1 .. LifeTasks

LifeInputs ==
    {NewTask(1, "open", MaxHours, 0, MaxTime, NilObjectID),
     NewTask(NumUsers, "done", MaxHours, 0, MaxTime, NilObjectID),
     NewTask(NumUsers, "open", 1, 0, MaxTime, ClientInvoiceID)}

Patches ==
    {[status |-> Str("done")],
     [status |-> Str("open")],
     [status |-> Str("done"), hours |-> Num(MaxHours + 1)]}

Next ==
    \/ \E task \in LifeInputs : nextTask <= LifeTasks /\ createTask(task)
    \/ \E r \in Handlers, id \in LifeIds, updates \in Patches : updateTaskLoad(r, id, updates)
    \/ \E r \in Handlers, outcome \in InvoiceOutcomes : updateTaskIssue(r, outcome)
    \/ \E r \in Handlers : updateTaskPersist(r)
    \/ \E id \in LifeIds : RemoveTaskRequest("DELETE", TRUE, id, TRUE, "admin")
    \/ RemoveAllTasksRequest("DELETE", TRUE, "admin")

Spec == Init /\ [][Next]_vars

\* ---- the requests a handler turns away, and the removal routes
GateIds == 1 .. MaxTasks

GateInputs == {NewTask(1, "open", 1, 0, MaxTime, NilObjectID)}

GateBillings ==
    {[user_id |-> 1, task_id |-> 1, hours |-> 1, amount |-> hourlyRate]}

BadPatches ==
    {[start_date |-> Str("yesterday")],
     [status |-> Str("done"), end_date |-> Str("tomorrow")],
     [parent_task |-> Str("xyz")]}

NextGate ==
    \/ \E task \in GateInputs : nextTask <= MaxTasks /\ createTask(task)
    \/ createTaskBadBody
    \/ \E method \in {"POST", "GET"}, bodyOk \in BOOLEAN, billing \in GateBillings :
          nextBilling <= MaxTasks /\ CreateBillingRequest(method, bodyOk, billing)
    \/ \E why \in {"method", "id", "body"} : updateTaskReject(why)
    \/ \E id \in GateIds, updates \in BadPatches \cup Patches :
          updateTaskInvalidPatch(id, updates)
    \/ \E id \in GateIds, updates \in BadPatches \cup Patches :
          updateTaskNotFound(id, updates)
    \/ \E method \in Methods, idOk \in BOOLEAN, id \in GateIds,
          authenticated \in BOOLEAN, ident \in IdentOutcomes :
          RemoveTaskRequest(method, idOk, id, authenticated, ident)
    \/ \E method \in Methods, authenticated \in BOOLEAN, ident \in IdentOutcomes :
          RemoveAllTasksRequest(method, authenticated, ident)
    \/ \E method \in Methods, idOk \in BOOLEAN, id \in GateIds,
          authenticated \in BOOLEAN, ident \in IdentOutcomes :
          RemoveBillingRequest(method, idOk, id, authenticated, ident)
    \/ \E method \in Methods, authenticated \in BOOLEAN, ident \in IdentOutcomes :
          RemoveAllBillingsRequest(method, authenticated, ident)

SpecGate == Init /\ [][NextGate]_vars

\* ---- task creation over all intervals
OverlapInputs ==
    {NewTask(user, "open", 1, start, end, NilObjectID) :
        user \in UserIds, start \in Times, end \in Times}

NextOverlap ==
    \/ \E task \in OverlapInputs : nextTask <= MaxTasks /\ createTask(task)
    \/ createTaskBadBody
    \/ \E id \in GateIds : RemoveTaskRequest("DELETE", TRUE, id, TRUE, "admin")

SpecOverlap == Init /\ [][NextOverlap]_vars

\* ---- patches the patch loop drops, skips or rejects
PatchCreates == {NewTask(1, "open", MaxHours, 0, MaxTime, NilObjectID)}

\* Patches with no recognized key
NoOpPatches ==
    {<<>>,
     [id |-> HexStr(MaxTasks + 1), invoice_id |-> HexStr(ClientInvoiceID)]}

\* Patches with a date or parent value that is not a string
NonStringPatches ==
    {[start_date |-> Num(1)],
     [status |-> Str("done"), end_date |-> Other, parent_task |-> Num(1)]}

PatchInputs == NoOpPatches \cup NonStringPatches \cup BadPatches

NextPatch ==
    \/ \E task \in PatchCreates : nextTask <= LifeTasks /\ createTask(task)
    \/ \E id \in LifeIds, updates \in PatchInputs : updateTaskInvalidPatch(id, updates)
    \/ \E id \in LifeIds, updates \in PatchInputs : updateTaskNotFound(id, updates)
    \/ \E r \in Handlers, id \in LifeIds, updates \in PatchInputs :
          updateTaskLoad(r, id, updates)
    \/ \E r \in Handlers, outcome \in InvoiceOutcomes : updateTaskIssue(r, outcome)
    \/ \E r \in Handlers : updateTaskPersist(r)
    \/ \E r \in Handlers : updateTaskPersistRefused(r)

SpecPatch == Init /\ [][NextPatch]_vars

\* ---- patches that change fields: two tasks, two handlers
FieldPatches ==
    {[hours |-> Num(0 - 1)],
     [title |-> Str("x"), start_date |-> DateStr(1), parent_task |-> HexStr(1)],
     [status |-> Str("done"), id |-> HexStr(MaxTasks + 1),
      invoice_id |-> HexStr(ClientInvoiceID)]}

NextFrame ==
    \/ \E task \in PatchCreates : nextTask <= MaxTasks /\ createTask(task)
    \/ \E r \in Handlers, id \in GateIds, updates \in FieldPatches :
          updateTaskLoad(r, id, updates)
    \/ \E r \in Handlers, outcome \in InvoiceOutcomes : updateTaskIssue(r, outcome)
    \/ \E r \in Handlers : updateTaskPersist(r)

SpecFrame == Init /\ [][NextFrame]_vars

\* ================================================================ claims
\* Ids the billing service has assigned so far
IssuedIds == 1 .. nextBilling - 1

SetsDone(r) == Lookup(reqs[r].updates, "status") = Str("done")

\* C1: when the invoice call of a done transition fails (transport error,
\* non-200 answer or undecodable body), the step leaves every stored task as
\* it was and answers 500, and the request never writes afterwards.
C1_InvoiceFailureWritesNothing ==
    [][\A r \in Handlers :
         /\ \A outcome \in InvoiceOutcomes \ {"ok"} :
               updateTaskIssue(r, outcome) =>
                  /\ tasks' = tasks
                  /\ reqs'[r].code = StatusInternalServerError
                  /\ reply'.code = StatusInternalServerError
                  /\ reqs'[r].pc = "failed"
         /\ updateTaskPersist(r) => reqs[r].pc # "failed"]_vars

\* C1 witness: a request to set a non-done task to done has ended with 500
\* and the stored task is field for field what the request read.
C1_Witness ==
    \E r \in Handlers :
        /\ reqs[r].pc = "failed"
        /\ reqs[r].code = StatusInternalServerError
        /\ reqs[r].currentTask.status # "done"
        /\ SetsDone(r)
        /\ "hours" \in DOMAIN reqs[r].updates
        /\ reqs[r].objectID \in DOMAIN tasks
        /\ Decode(reqs[r].objectID, tasks[reqs[r].objectID]) = reqs[r].currentTask

\* C2: an update that read a non-done task and sets it to done issues exactly
\* one billing record before it writes; the record carries the hours the
\* request read from the store (not the hours of the patch), amount = hours x
\* hourlyRate, the task's assignee and id; the write leaves the task done with
\* invoice_id equal to that record's id.  Billing records appear in no other way.
C2_DoneTransitionIssuesOneInvoice ==
    [][/\ \A r \in Handlers :
          /\ (Free(r) /\ reqs'[r].pc = "loaded") =>
                reqs'[r].currentTask.hours = tasks[reqs'[r].objectID].hours
          /\ updateTaskIssue(r, "ok") =>
                LET b == reqs'[r].invoiceID
                    cur == reqs[r].currentTask
                IN /\ b \notin DOMAIN billings
                   /\ DOMAIN billings' = DOMAIN billings \cup {b}
                   /\ \A x \in DOMAIN billings : billings'[x] = billings[x]
                   /\ billings'[b] = [user_id |-> cur.assigned_to,
                                      task_id |-> reqs[r].objectID,
                                      hours |-> cur.hours,
                                      amount |-> cur.hours * hourlyRate]
          /\ (updateTaskPersist(r) /\ reqs[r].currentTask.status # "done" /\ SetsDone(r)) =>
                /\ reqs[r].pc = "issued"
                /\ reqs[r].invoiceID \in IssuedIds
                /\ reqs[r].objectID \in DOMAIN tasks =>
                      /\ tasks'[reqs[r].objectID].invoice_id = reqs[r].invoiceID
                      /\ tasks'[reqs[r].objectID].status = "done"
       /\ billings' # billings =>
             \E r \in Handlers, outcome \in InvoiceOutcomes : updateTaskIssue(r, outcome)]_vars

\* C2 witness: a written done transition whose patch also carried hours; the
\* billing record has the hours read before the update, the task the new ones.
C2_Witness ==
    \E r \in Handlers :
        LET id == reqs[r].objectID
            b == reqs[r].invoiceID
        IN /\ reqs[r].pc = "written"
           /\ reqs[r].currentTask.status # "done"
           /\ SetsDone(r)
           /\ "hours" \in DOMAIN reqs[r].updates
           /\ id \in DOMAIN tasks
           /\ b \in DOMAIN billings
           /\ tasks[id].invoice_id = b
           /\ tasks[id].status = "done"
           /\ tasks[id].hours = reqs[r].updates["hours"].n
           /\ billings[b].hours = reqs[r].currentTask.hours
           /\ billings[b].hours # tasks[id].hours
           /\ billings[b].amount = reqs[r].currentTask.hours * hourlyRate
           /\ Cardinality(DOMAIN billings) = 1

\* C3: a request that read status "done" makes no invoice call: its only
\* step is the write, which leaves the billing store as it is; and a request
\* that has made its invoice call makes no second one.
C3_NoInvoiceWhenAlreadyDone ==
    [][\A r \in Handlers :
         /\ (reqs[r].pc = "loaded" /\ reqs[r].currentTask.status = "done"
                /\ reqs'[r] # reqs[r]) =>
               /\ reqs'[r].pc = "written"
               /\ reqs'[r].invoiceID = NilObjectID
               /\ "invoice_id" \notin DOMAIN reqs[r].set
               /\ billings' = billings
               /\ nextBilling' = nextBilling
         /\ (reqs[r].pc = "issued" /\ reqs'[r] # reqs[r]) =>
               /\ reqs'[r].pc = "written"
               /\ billings' = billings
               /\ nextBilling' = nextBilling]_vars

\* C3 witness: a task set to done by an update has been patched to done
\* again by both handlers' latest requests, and one billing record exists.
C3_Witness ==
    /\ started = MaxUpdates
    /\ Cardinality(DOMAIN billings) = 1
    /\ nextBilling = 2
    /\ \A r \in Handlers :
          /\ reqs[r].pc = "written"
          /\ reqs[r].currentTask.status = "done"
          /\ reqs[r].currentTask.invoice_id \in DOMAIN billings
          /\ SetsDone(r)
          /\ reqs[r].objectID \in DOMAIN tasks
          /\ tasks[reqs[r].objectID].invoice_id = reqs[r].currentTask.invoice_id

\* C4: every stored task has an invoice_id if and only if an update request
\* has written status "done" to it.
C4_InvoiceRefIffDoneByUpdate ==
    \A id \in DOMAIN tasks :
        (tasks[id].invoice_id # NilObjectID) <=> (id \in doneByUpdate)

\* C5 as stated: once a task's invoice_id is the id of an issued billing
\* record, no later step changes or removes it while the task exists.
C5_InvoiceRefSetOnce ==
    [][\A id \in DOMAIN tasks \cap DOMAIN tasks' :
         tasks[id].invoice_id \in IssuedIds =>
            tasks'[id].invoice_id = tasks[id].invoice_id]_vars

\* C5 amended: an invoice_id that holds a value is never cleared, and it is
\* replaced only by the write of a request that read a non-done status, sets
\* status to done and was issued an invoice; it then is that invoice's id.
C5_InvoiceRefNeverCleared ==
    [][\A id \in DOMAIN tasks \cap DOMAIN tasks' :
         tasks[id].invoice_id # NilObjectID =>
            /\ tasks'[id].invoice_id # NilObjectID
            /\ tasks'[id].invoice_id # tasks[id].invoice_id =>
                  \E r \in Handlers :
                     /\ updateTaskPersist(r)
                     /\ reqs[r].objectID = id
                     /\ reqs[r].pc = "issued"
                     /\ reqs[r].currentTask.status # "done"
                     /\ SetsDone(r)
                     /\ reqs[r].invoiceID \in IssuedIds
                     /\ tasks'[id].invoice_id = reqs[r].invoiceID]_vars

\* C5 witness: done -> open -> done again.  The request read status "open"
\* with the invoice of the first transition, and its write has put a second
\* invoice in its place.
C5_Witness ==
    \E r \in Handlers :
        LET id == reqs[r].objectID
            old == reqs[r].currentTask.invoice_id
        IN /\ reqs[r].pc = "written"
           /\ reqs[r].currentTask.status = "open"
           /\ SetsDone(r)
           /\ old \in DOMAIN billings
           /\ billings[old].task_id = id
           /\ reqs[r].invoiceID \in DOMAIN billings
           /\ reqs[r].invoiceID # old
           /\ id \in DOMAIN tasks
           /\ tasks[id].invoice_id = reqs[r].invoiceID
           /\ tasks[id].status = "done"

\* C6: whenever the latest requests of the two handlers are for the same
\* task and both were issued an invoice, both had read a status other than
\* "done", the two invoices are different billing ids issued for that task,
\* and once both have written, the task's invoice_id is one of the two.
C6_DuplicateIssuance ==
    \A r1 \in Handlers, r2 \in Handlers :
        (/\ r1 # r2
         /\ reqs[r1].objectID = reqs[r2].objectID
         /\ reqs[r1].invoiceID # NilObjectID
         /\ reqs[r2].invoiceID # NilObjectID) =>
            /\ reqs[r1].currentTask.status # "done"
            /\ reqs[r2].currentTask.status # "done"
            /\ reqs[r1].invoiceID # reqs[r2].invoiceID
            /\ {reqs[r1].invoiceID, reqs[r2].invoiceID} \subseteq IssuedIds
            /\ \A b \in {reqs[r1].invoiceID, reqs[r2].invoiceID} \cap DOMAIN billings :
                  billings[b].task_id = reqs[r1].objectID
            /\ (/\ reqs[r1].pc = "written"
                /\ reqs[r2].pc = "written"
                /\ reqs[r1].objectID \in DOMAIN tasks) =>
                  tasks[reqs[r1].objectID].invoice_id
                     \in {reqs[r1].invoiceID, reqs[r2].invoiceID}

\* C6 witness: two requests set the same task to done; each read it before
\* the other wrote (status not done, no invoice yet), each was issued an
\* invoice, both have written: two billing records name the task and its
\* invoice_id is one of them.
C6_Witness ==
    \E r1 \in Handlers, r2 \in Handlers :
        LET id == reqs[r1].objectID
        IN /\ r1 # r2
           /\ reqs[r2].objectID = id
           /\ \A r \in {r1, r2} :
                 /\ reqs[r].pc = "written"
                 /\ reqs[r].currentTask.status # "done"
                 /\ reqs[r].currentTask.invoice_id = NilObjectID
                 /\ SetsDone(r)
                 /\ reqs[r].invoiceID \in DOMAIN billings
                 /\ billings[reqs[r].invoiceID].task_id = id
           /\ reqs[r1].invoiceID # reqs[r2].invoiceID
           /\ Cardinality({b \in DOMAIN billings : billings[b].task_id = id}) = 2
           /\ id \in DOMAIN tasks
           /\ tasks[id].invoice_id = reqs[r2].invoiceID
           /\ tasks[id].invoice_id # reqs[r1].invoiceID

\* C7: a well-formed request to any of the four removal routes whose caller
\* does not resolve to role "admin" (the resolution fails, answers a code
\* other than 200, answers an undecodable body, or answers another role) is
\* answered 401 and leaves the task store and the billing store as they are.
C7_RemovalsFailClosed ==
    [][\A path \in RemovalPaths, id \in GateIds, authenticated \in BOOLEAN,
          ident \in IdentOutcomes \ {"admin"} :
         Removal(path, "DELETE", TRUE, id, authenticated, ident) =>
            /\ reply'.code = StatusUnauthorized
            /\ tasks' = tasks
            /\ billings' = billings]_vars

Max(a, b) == IF a > b THEN a ELSE b
Min(a, b) == IF a < b THEN a ELSE b

\* The create step of this request has stored the task with the warning
Flagged(task) == tasks'[NewTaskID].description = task.description \o Warning

\* C8: a create request is flagged if and only if a stored task of the same
\* assignee has an interval [s2,e2) with max(s1,s2) < min(e1,e2), [s1,e1)
\* being the submitted interval, whatever the order of start and end.
C8_FlaggedIffIntervalsIntersect ==
    [][\A task \in OverlapInputs :
         (nextTask <= MaxTasks /\ createTask(task)) =>
            (Flagged(task) <=>
               \E i \in DOMAIN tasks :
                  /\ tasks[i].assigned_to = task.assigned_to
                  /\ Max(task.start_date, tasks[i].start_date)
                        < Min(task.end_date, tasks[i].end_date))]_vars

\* C9: a create request with start = end is never flagged, and a request
\* that is flagged matches a stored task that is not of zero width.
C9_ZeroWidthNeverOverlaps ==
    [][\A task \in OverlapInputs :
         (nextTask <= MaxTasks /\ createTask(task)) =>
            /\ task.start_date = task.end_date => ~Flagged(task)
            /\ Flagged(task) =>
                  \E i \in overlappingTasks(task) :
                     tasks[i].start_date # tasks[i].end_date]_vars

\* C10: a well-formed create request inserts exactly one task under an id no
\* task has had, answers 200, and leaves every stored task as it was; the
\* stored description is the submitted one followed by the warning when the
\* overlap query finds a task, and the submitted one otherwise.
C10_OverlapIsAdvisory ==
    [][\A task \in OverlapInputs :
         (nextTask <= MaxTasks /\ createTask(task)) =>
            /\ NewTaskID \notin DOMAIN tasks
            /\ \A i \in DOMAIN tasks : i < NewTaskID
            /\ DOMAIN tasks' = DOMAIN tasks \cup {NewTaskID}
            /\ \A i \in DOMAIN tasks : tasks'[i] = tasks[i]
            /\ tasks'[NewTaskID].description =
                  IF \E i \in DOMAIN tasks : OverlapFilter(tasks[i], task)
                  THEN task.description \o Warning
                  ELSE task.description
            /\ tasks'[NewTaskID].assigned_to = task.assigned_to
            /\ reply' = Reply("createTask", StatusOK)]_vars

\* C10 witness: two tasks of one assignee are stored; the later one starts
\* inside the earlier one's interval and carries the warning, the earlier
\* one is as submitted.
C10_Witness ==
    /\ reply = Reply("createTask", StatusOK)
    /\ \E i \in DOMAIN tasks, j \in DOMAIN tasks :
          /\ i < j
          /\ tasks[i].assigned_to = tasks[j].assigned_to
          /\ tasks[i].start_date < tasks[j].start_date
          /\ tasks[j].start_date < tasks[i].end_date
          /\ tasks[j].start_date < tasks[j].end_date
          /\ tasks[i].description = <<"d">>
          /\ tasks[j].description = <<"d">> \o Warning

NoRecognizedKey(updates) == DOMAIN updates \cap RecognizedKeys = {}

\* C11: an update request whose patch is empty or has only unrecognized keys
\* is not rejected by the patch loop, reaches the store with an empty $set
\* document, makes no invoice call, and its write step leaves every stored
\* task and the billing store as they are; it is never answered 400.
C11_UnrecognizedPatchIsNoOp ==
    [][/\ \A id \in LifeIds, updates \in PatchInputs :
             NoRecognizedKey(updates) =>
                /\ ~PatchInvalid(updates)
                /\ ~updateTaskInvalidPatch(id, updates)
                /\ \A r \in Handlers :
                      updateTaskLoad(r, id, updates) =>
                         /\ DOMAIN reqs'[r].set = {}
                         /\ ~TransitionsToDone(reqs'[r].currentTask, updates)
       /\ \A r \in Handlers :
             (/\ NoRecognizedKey(reqs[r].updates)
              /\ reqs[r].pc = "loaded"
              /\ reqs'[r] # reqs[r]) =>
                /\ ~(\E outcome \in InvoiceOutcomes : updateTaskIssue(r, outcome))
                /\ reqs'[r].pc = "written"
                /\ reqs'[r].code # StatusBadRequest
                /\ reqs'[r].invoiceID = NilObjectID
                /\ tasks' = tasks
                /\ billings' = billings
                /\ nextBilling' = nextBilling]_vars

\* C11 witness: a patch of the keys id and invoice_id alone has been answered
\* 204; the stored task is what the request read, with its id and without an
\* invoice_id, and no billing record exists.
C11_Witness ==
    \E r \in Handlers :
        LET id == reqs[r].objectID
        IN /\ reqs[r].pc = "written"
           /\ reqs[r].code = StatusNoContent
           /\ DOMAIN reqs[r].updates = {"id", "invoice_id"}
           /\ id \in DOMAIN tasks
           /\ Decode(id, tasks[id]) = reqs[r].currentTask
           /\ tasks[id].invoice_id = NilObjectID
           /\ DOMAIN billings = {}

\* A start or end value that is not an RFC3339 string, or a parent value
\* that is not a string of 24 hex digits (values that are no strings included)
HasBadValue(updates) ==
    \/ \E key \in DateKeys \cap DOMAIN updates : ~ParsesAsDate(updates[key])
    \/ "parent_task" \in DOMAIN updates /\ ~ParsesAsHex(updates["parent_task"])

\* C12: an update request whose patch has a start or end value that is not a
\* timestamp in RFC3339 format, or a parent value that is not a valid id, is
\* answered 400 by the patch loop: it never loads the task, so it makes no
\* invoice call and no write.
C12_BadDateOrParentRejected ==
    [][\A id \in LifeIds, updates \in PatchInputs :
         HasBadValue(updates) =>
            /\ \A r \in Handlers : ~updateTaskLoad(r, id, updates)
            /\ updateTaskInvalidPatch(id, updates) =>
                  reply' = Reply("updateTask", StatusBadRequest)]_vars

\* C13: in every reachable state every stored task's hours is a number that
\* is not negative, and every billing record has an amount that is not
\* negative.
C13_HoursNonNegative ==
    /\ \A id \in DOMAIN tasks : tasks[id].hours >= 0
    /\ \A b \in DOMAIN billings : billings[b].amount >= 0

\* C14: under every interleaving of update, remove and remove-all requests,
\* the step in which an update request writes and answers 204 applies to a
\* task that is in the store; and when the request was issued an invoice,
\* the task is in the store after the step with status "done" and invoice_id
\* equal to the id of the issued billing record.
C14_NoOrphanBilling ==
    [][\A r \in Handlers :
         updateTaskPersist(r) =>
            /\ reqs[r].objectID \in DOMAIN tasks
            /\ reqs[r].pc = "issued" =>
                  /\ reqs[r].objectID \in DOMAIN tasks'
                  /\ tasks'[reqs[r].objectID].status = "done"
                  /\ tasks'[reqs[r].objectID].invoice_id = reqs[r].invoiceID]_vars

Fields == {"title", "description", "assigned_to", "status", "hours",
           "start_date", "end_date", "invoice_id", "parent_task"}

\* The fields the write of request r may change
MayChange(r) ==
    (DOMAIN reqs[r].updates \cap RecognizedKeys)
       \cup (IF TransitionsToDone(reqs[r].currentTask, reqs[r].updates)
             THEN {"invoice_id"} ELSE {})

\* C15: the write of an update request keeps the set of task ids, leaves
\* every other task as it is, and on its own task changes no field other than
\* those of the recognized keys of its patch, plus invoice_id when the request
\* read a non-done status and sets status to done.  The patched title, hours,
\* status, start and parent take the values of the patch, an invoice_id of a
\* done transition is the issued one (never the one of the patch), and no
\* other step of an update request changes a task.
C15_UpdateFrame ==
    [][\A r \in Handlers :
         /\ updateTaskPersist(r) =>
               LET id == reqs[r].objectID
                   updates == reqs[r].updates
               IN /\ DOMAIN tasks' = DOMAIN tasks
                  /\ \A i \in DOMAIN tasks \ {id} : tasks'[i] = tasks[i]
                  /\ id \in DOMAIN tasks =>
                        /\ \A f \in Fields \ MayChange(r) : tasks'[id][f] = tasks[id][f]
                        /\ "title" \in DOMAIN updates =>
                              tasks'[id].title = updates["title"].s
                        /\ "hours" \in DOMAIN updates =>
                              tasks'[id].hours = updates["hours"].n
                        /\ "status" \in DOMAIN updates =>
                              tasks'[id].status = updates["status"].s
                        /\ "start_date" \in DOMAIN updates =>
                              tasks'[id].start_date = BsonDateTime(updates["start_date"].n)
                        /\ "parent_task" \in DOMAIN updates =>
                              tasks'[id].parent_task = updates["parent_task"].n
                        /\ TransitionsToDone(reqs[r].currentTask, updates) =>
                              /\ tasks'[id].invoice_id = reqs[r].invoiceID
                              /\ tasks'[id].invoice_id \in IssuedIds
         /\ (reqs'[r] # reqs[r] /\ ~updateTaskPersist(r)) => tasks' = tasks]_vars

\* C15 witness: two requests on the same task, one patching hours and one
\* patching title, start and parent, each read the task as created and both
\* have written: the task has the values of both patches and its other
\* fields as created, and the other task, created later for the same
\* interval, is stored as created (with the overlap warning).
C15_Witness ==
    \E r1 \in Handlers, r2 \in Handlers :
        LET id == reqs[r1].objectID
            created == TaskDoc(NewTask(1, "open", MaxHours, 0, MaxTime, NilObjectID))
        IN /\ r1 # r2
           /\ reqs[r2].objectID = id
           /\ reqs[r1].pc = "written" /\ reqs[r2].pc = "written"
           /\ DOMAIN reqs[r1].updates = {"hours"}
           /\ DOMAIN reqs[r2].updates = {"title", "start_date", "parent_task"}
           /\ reqs[r1].currentTask = Decode(id, created)
           /\ reqs[r2].currentTask = Decode(id, created)
           /\ id \in DOMAIN tasks
           /\ tasks[id] = [created EXCEPT !.hours = reqs[r1].updates["hours"].n,
                                         !.title = "x",
                                         !.start_date = BsonDateTime(1),
                                         !.parent_task = 1]
           /\ \E other \in DOMAIN tasks \ {id} :
                 tasks[other] = [created EXCEPT !.description = @ \o Warning]

====
